---- MODULE Spec2Model ----
(***************************************************************************)
(* Controller liveness subsystem of LXCloud: the staleness evaluator       *)
(* (Controller.is_stale), the reconciliation pass                          *)
(* (ControllerStatusService._check_controller_status), the service control *)
(* surface (start / stop / get_status / force_check), the worker loop and  *)
(* the HTTP / MQTT ingestion handlers that write the same rows.            *)
(*                                                                         *)
(* Time is an integer clock `now` (datetime.utcnow()); a nullable column   *)
(* holds NULL or a natural number.                                         *)
(***************************************************************************)
EXTENDS Integers, FiniteSets, TLC

\* ------------------------------------------------------------- bounds
MaxTime == 2
NumControllers == 2
MaxTimeout == 2
MaxThreads == 2
MaxInterval == 2
MaxPassTime == 1
Horizon == 7

\* ------------------------------------------------------------- values
NULL == -1

Serials == 1 .. NumControllers
Times == 0 .. MaxTime
Timeouts == 0 .. MaxTimeout
ThreadIds == 1 .. MaxThreads
ForceCaller == 0
Runners == {ForceCaller} \cup ThreadIds

\* The holders of a db.session besides the runners: the MQTT client thread,
\* inside one app context for as long as it is connected (mqtt_service.py
\* lines 55-74), and the HTTP request being served.
MqttClient == MaxThreads + 1
HttpRequest == MaxThreads + 2
Sessions == Runners \cup {MqttClient, HttpRequest}

\* A Controller row, restricted to the columns the liveness subsystem uses.
ControllerRow(online, seen, timeout) ==
    [is_online |-> online, last_seen |-> seen, timeout_seconds |-> timeout]

VARIABLES
    now,             \* datetime.utcnow()
    offline_timeout, \* Config.CONTROLLER_OFFLINE_TIMEOUT
    controllers,     \* the controllers table: serial_number -> row
    app,             \* ControllerStatusService.app is set
    enabled,         \* ControllerStatusService.enabled
    status_thread,   \* ControllerStatusService.status_thread (0 = None)
    stop_event,      \* ControllerStatusService.stop_event is set
    thread,          \* per Thread object: where its run loop stands
    pass,            \* per runner: the pass in progress (session state)
    outcome,         \* per runner: how its last pass ended
    quiet,           \* per runner: no other writer committed during its last pass
    call,            \* the control-surface call in progress and its result
    probe,           \* inputs and results of a direct is_stale evaluation
    check_interval,  \* Config.CONTROLLER_STATUS_CHECK_INTERVAL
    due,             \* per thread: when its wait times out / its pass is over
    event,           \* the last ingestion request and the answer it got
    peer,            \* a start() or stop() in progress in a second execution context
    session,         \* per runner: the app context and the transaction of its db.session
    mqtt             \* MQTTService: its fields and where its client thread stands

vars == <<now, offline_timeout, controllers, app, enabled, status_thread,
          stop_event, thread, pass, outcome, quiet, call, probe,
          check_interval, due, event, peer,
          session, mqtt>>

serviceVars == <<app, enabled, status_thread, stop_event, thread, call>>
passVars == <<pass, outcome, quiet>>
timerVars == <<check_interval, due>>

\* ------------------------------------------------ liveness evaluator
\* `self.timeout_seconds or default`: a zero override falls back to the default.
is_stale_falsy_override(c, default_timeout_seconds, utcnow) ==
    IF c.last_seen = NULL
    THEN TRUE
    ELSE LET timeout_to_use ==
                 IF c.timeout_seconds # NULL /\ c.timeout_seconds # 0
                 THEN c.timeout_seconds
                 ELSE default_timeout_seconds
             cutoff_time == utcnow - timeout_to_use
         IN  c.last_seen < cutoff_time

\* `last_seen <= cutoff_time`: a controller exactly at the boundary is stale.
is_stale_inclusive(c, default_timeout_seconds, utcnow) ==
    IF c.last_seen = NULL
    THEN TRUE
    ELSE LET timeout_to_use ==
                 IF c.timeout_seconds # NULL
                 THEN c.timeout_seconds
                 ELSE default_timeout_seconds
             cutoff_time == utcnow - timeout_to_use
         IN  c.last_seen <= cutoff_time

\* A never-seen controller is judged by the age of nothing: never stale.
is_stale_never_seen_fresh(c, default_timeout_seconds, utcnow) ==
    IF c.last_seen = NULL
    THEN FALSE
    ELSE LET timeout_to_use ==
                 IF c.timeout_seconds # NULL
                 THEN c.timeout_seconds
                 ELSE default_timeout_seconds
             cutoff_time == utcnow - timeout_to_use
         IN  c.last_seen < cutoff_time

\* Controller.is_stale(default_timeout_seconds), with utcnow the clock it reads.
is_stale(c, default_timeout_seconds, utcnow) ==
    IF c.last_seen = NULL
    THEN TRUE
    ELSE LET timeout_to_use ==
                 IF c.timeout_seconds # NULL
                 THEN c.timeout_seconds
                 ELSE default_timeout_seconds
             cutoff_time == utcnow - timeout_to_use
         IN  c.last_seen < cutoff_time

\* --------------------------------------------------------- the store
Present == DOMAIN controllers

\* db.session.add(Controller(...)) / attribute assignment, then commit.
Put(table, s, row) ==
    [x \in (DOMAIN table) \cup {s} |-> IF x = s THEN row ELSE table[x]]

\* Controller.query.filter(Controller.is_online == True).all()
OnlineControllers(table) ==
    {s \in DOMAIN table : table[s].is_online}

NoPass == [pc |-> "idle", dirty |-> {}, current_time |-> NULL]

\* Every writer other than w that commits makes the passes in progress not quiet.
Disturbed(w) ==
    [r \in Runners |-> IF r = w \/ pass[r].pc = "idle" THEN quiet[r] ELSE FALSE]

\* ------------------------------------------- the reconciliation pass
\* The loop marks every scanned controller, stale or not.
StaleAmongAll(online_controllers) ==
    online_controllers

\* The loop ignores the per-controller override and uses the default only.
StaleAmongDefaultOnly(online_controllers) ==
    {s \in online_controllers :
        is_stale([controllers[s] EXCEPT !.timeout_seconds = NULL],
                 offline_timeout, now)}

\* Lines 120-124: the scanned controllers that is_stale() reports, each of
\* which gets is_online = False in memory.
StaleAmong(online_controllers) ==
    {s \in online_controllers : is_stale(controllers[s], offline_timeout, now)}

\* _check_controller_status, lines 107-131: the scan and the loop over its
\* result.  An empty result ends the pass at once (line 113); otherwise the
\* session holds the stale controllers as dirty objects until the commit.
check_scan(r) ==
    LET online_controllers == OnlineControllers(controllers)
    IN  /\ quiet' = [quiet EXCEPT ![r] = TRUE]
        /\ IF online_controllers = {}
           THEN /\ pass' = [pass EXCEPT ![r] = NoPass]
                /\ outcome' = [outcome EXCEPT ![r] = "empty"]
           ELSE /\ pass' = [pass EXCEPT ![r] =
                               [pc |-> "finish",
                                dirty |-> StaleAmong(online_controllers),
                                current_time |-> now]]
                /\ outcome' = [outcome EXCEPT ![r] = "none"]
        /\ UNCHANGED controllers

\* A flush that also stamps last_seen with the time of the pass.
FlushTouchingLastSeen(table, dirty) ==
    [s \in DOMAIN table |->
        IF s \in dirty
        THEN [table[s] EXCEPT !.is_online = FALSE, !.last_seen = now]
        ELSE table[s]]

\* A flush that writes is_online of every online row from the verdict.
FlushAllOnline(table, dirty) ==
    [s \in DOMAIN table |-> [table[s] EXCEPT !.is_online = FALSE]]

\* The flush of the dirty objects: UPDATE controllers SET is_online = 0
\* WHERE id = s, for each; no other column is written.
Flush(table, dirty) ==
    [s \in DOMAIN table |->
        IF s \in dirty THEN [table[s] EXCEPT !.is_online = FALSE] ELSE table[s]]

\* The commit is issued on every pass that scanned something.
check_finish_always_commits(r) ==
    /\ pass[r].pc = "finish"
    /\ controllers' = Flush(controllers, pass[r].dirty)
    /\ outcome' = [outcome EXCEPT ![r] = "committed"]
    /\ quiet' = Disturbed(r)
    /\ pass' = [pass EXCEPT ![r] = NoPass]

\* Lines 133-142: commit when controllers_updated > 0, else only count the
\* pass for the occasional log line (_check_counter feeds a print and nothing
\* else; it is not part of the state).
check_finish(r) ==
    /\ pass[r].pc = "finish"
    /\ IF pass[r].dirty # {}
       THEN /\ controllers' = Flush(controllers, pass[r].dirty)
            /\ outcome' = [outcome EXCEPT ![r] = "committed"]
            /\ quiet' = Disturbed(r)
       ELSE /\ outcome' = [outcome EXCEPT ![r] = "unchanged"]
            /\ UNCHANGED <<controllers, quiet>>
    /\ pass' = [pass EXCEPT ![r] = NoPass]

\* Lines 107-109 raise (the store refuses the query, or the evaluation of a
\* row fails): the except clause at 144-151 rolls the session back and the
\* pass returns, having written nothing.
check_scan_raises(r) ==
    /\ quiet' = [quiet EXCEPT ![r] = TRUE]
    /\ pass' = [pass EXCEPT ![r] = NoPass]
    /\ outcome' = [outcome EXCEPT ![r] = "failed"]
    /\ UNCHANGED controllers

\* A commit that fails after the UPDATEs went through: the rows are written
\* although the pass has failed.
check_finish_raises_keeps_writes(r) ==
    /\ pass[r].pc = "finish"
    /\ pass[r].dirty # {}
    /\ controllers' = Flush(controllers, pass[r].dirty)
    /\ pass' = [pass EXCEPT ![r] = NoPass]
    /\ outcome' = [outcome EXCEPT ![r] = "failed"]
    /\ UNCHANGED quiet

\* Line 134 raises: the commit fails as a whole, the except clause rolls the
\* session back and the rows stay as they were.
check_finish_raises(r) ==
    /\ pass[r].pc = "finish"
    /\ pass[r].dirty # {}
    /\ pass' = [pass EXCEPT ![r] = NoPass]
    /\ outcome' = [outcome EXCEPT ![r] = "failed"]
    /\ UNCHANGED <<controllers, quiet>>

\* MQTTService.__init__, mqtt_service.py lines 10-18, before start().
NoMqtt ==
    [enabled |-> TRUE, retry_count |-> 0, is_connected |-> FALSE,
     pc |-> "unstarted", disconnect |-> FALSE, stop |-> "idle"]

\* ------------------------------------------------- the app context
\* db.session of a runner: "closed" outside an app context, "open" inside one
\* with no transaction begun (or after commit / rollback), "transaction" from
\* the first query on.

\* A context that is left without its teardown: the session stays as it is.
app_context_exit_keeps_session(s) == s

\* The end of `with self.app.app_context():`: the teardown removes the session,
\* which rolls back and releases whatever transaction is open.
app_context_exit(s) == "closed"

\* ------------------------------------------------ ingestion adapters
\* Each handler runs in its own request / callback and commits once; a handler
\* that answers with an error leaves the store as it was.

\* Controller.update_status(): is_online = True, last_seen = utcnow().
update_status(row) ==
    [row EXCEPT !.is_online = TRUE, !.last_seen = now]

\* The spelling of a serial number as a request carries it: serial s in
\* upper case is s itself, in lower case s + NumControllers.
RawSerials == 1 .. 2 * NumControllers

\* A conversion that leaves the spelling as it came.
upper_keeps_case(raw) == raw

\* str.upper()
upper(raw) == IF raw > NumControllers THEN raw - NumControllers ELSE raw

\* The 'online' member of a status payload: true, false or not there.
OnlinePayloads == {"true", "false", "absent"}

\* bool(data.get('online', True)), api.py lines 295-296.
http_online(p) == p # "false"

\* status_data.get('online', False), mqtt_service.py line 186.
mqtt_online(p) == p = "true"

\* What an HTTP request brings: a body the handler accepts, no JSON body at
\* all, a body whose latitude / longitude do not convert, a reserved word in
\* the place of the serial, or a body that is fine over a store that fails
\* the commit.
Inputs == {"valid", "no_json", "bad_location", "reserved", "store_fails"}

\* No request handled yet; `traced` tells whether requests are recorded at all.
NoEvent(traced) ==
    [traced |-> traced, n |-> 0, handler |-> "none", raw |-> 0, serial |-> 0,
     online |-> "absent", timeout |-> NULL, data |-> FALSE, status |-> "none",
     existed |-> FALSE, time |-> 0, response_timeout |-> NULL]

\* A request, what the handler answered and, for the HTTP handlers that
\* return controller.to_dict(), the timeout_seconds of that answer.  The
\* answers: "ok" (200), "created" (201), "bad_request" (400 before the
\* lookup), "bad_location" (400 'Invalid latitude or longitude values'),
\* "not_found" (404), "not_allowed" (405), "error" (500, or an MQTT handler's
\* except clause), "ignored" (an MQTT message dropped).
Answer(handler, raw, online, timeout, data, status, table) ==
    [traced |-> TRUE, n |-> 1 - event.n, handler |-> handler, raw |-> raw,
     serial |-> upper(raw), online |-> online, timeout |-> timeout,
     data |-> data, status |-> status, existed |-> upper(raw) \in Present,
     time |-> now,
     response_timeout |->
         IF handler \in {"register", "modify"} /\ status \in {"ok", "created"}
         THEN table[upper(raw)].timeout_seconds
         ELSE NULL]

\* The session of a handler when its handling is over.  An HTTP handler runs
\* in the context of its request, which ends with it.  An MQTT handler runs
\* in the client thread's context, which stays: its session is left as the
\* handler leaves it, with no transaction after a commit or a rollback and
\* with the transaction of its query after a return without either (a
\* status message for an unknown serial, mqtt_service.py lines 188-193).
SessionAfter(answer) ==
    IF answer.handler \in {"mqtt_data", "mqtt_status"}
    THEN [session EXCEPT ![MqttClient] =
             IF answer.status = "ignored" THEN "transaction" ELSE "open"]
    ELSE [session EXCEPT ![HttpRequest] =
             app_context_exit(IF answer.status \in {"ok", "created", "error"}
                              THEN "open"
                              ELSE "transaction")]

\* An ingestion handler's commit of `table`.
IngestCommit(table, answer) ==
    /\ controllers' = table
    /\ quiet' = Disturbed(NULL)
    /\ event' = IF event.traced THEN answer ELSE event
    /\ session' = IF event.traced THEN SessionAfter(answer) ELSE session
    /\ UNCHANGED <<now, offline_timeout, serviceVars, pass, outcome, probe, peer, timerVars, mqtt>>

\* A handler that answers without a commit (404, or an MQTT message dropped),
\* or whose commit fails and is rolled back.
IngestRefuse(answer) ==
    /\ event' = IF event.traced THEN answer ELSE event
    /\ session' = IF event.traced THEN SessionAfter(answer) ELSE session
    /\ UNCHANGED <<now, offline_timeout, controllers, serviceVars, passVars, probe, peer,
                   timerVars, mqtt>>

\* A rejection that writes what the handler had assigned by then.
IngestReject_flushes(table, answer) ==
    IngestCommit(table, answer)

\* An HTTP handler that returns an error after it has assigned attributes of
\* the loaded row: `table` is what its session holds, never flushed; the
\* return (400) or the rollback of the except clause (500) and the end of the
\* request drop it.
IngestReject(table, answer) ==
    IngestRefuse(answer)

\* POST /api/controllers/register: update-if-present, register-if-absent.  A
\* timeout_seconds in the body is not read.  The location is converted after
\* is_online and last_seen of an existing row are assigned (lines 160-171); a
\* new Controller is added to the session after it (line 199).
register_controller(raw, timeout, input) ==
    LET s == upper(raw)
        table == IF s \in Present
                 THEN Put(controllers, s, update_status(controllers[s]))
                 ELSE Put(controllers, s, ControllerRow(TRUE, now, NULL))
        held == IF s \in Present THEN table ELSE controllers
    IN  CASE input \in {"no_json", "reserved"} ->
                 IngestRefuse(Answer("register", raw, "absent", timeout, FALSE,
                                     "bad_request", controllers))
          [] input = "bad_location" ->
                 IngestReject(held, Answer("register", raw, "absent", timeout, FALSE,
                                           "bad_location", controllers))
          [] input = "store_fails" ->
                 IngestReject(table, Answer("register", raw, "absent", timeout, FALSE,
                                            "error", controllers))
          [] OTHER ->
                 IngestCommit(table,
                     Answer("register", raw, "absent", timeout, FALSE,
                            IF s \in Present THEN "ok" ELSE "created", table))

\* POST /api/controllers/<serial>/data: 400 for a reserved word or no body,
\* 404 for an unknown serial; the location is converted after is_online and
\* last_seen are assigned (lines 233-245).
update_controller_data(raw, input) ==
    LET s == upper(raw)
        table == IF s \in Present
                 THEN Put(controllers, s, update_status(controllers[s]))
                 ELSE controllers
    IN  CASE input \in {"no_json", "reserved"} ->
                 IngestRefuse(Answer("data", raw, "absent", NULL, TRUE,
                                     "bad_request", controllers))
          [] s \notin Present /\ input \notin {"no_json", "reserved"} ->
                 IngestRefuse(Answer("data", raw, "absent", NULL, TRUE,
                                     "not_found", controllers))
          [] s \in Present /\ input = "bad_location" ->
                 IngestReject(table, Answer("data", raw, "absent", NULL, TRUE,
                                            "bad_location", controllers))
          [] s \in Present /\ input = "store_fails" ->
                 IngestReject(table, Answer("data", raw, "absent", NULL, TRUE,
                                            "error", controllers))
          [] OTHER ->
                 IngestCommit(table,
                     Answer("data", raw, "absent", NULL, TRUE, "ok", table))

\* POST /api/controllers/<serial>/status: is_online = bool(data.get('online',
\* True)); the body's location is not read.
update_controller_status(raw, online, input) ==
    LET s == upper(raw)
        table == IF s \in Present
                 THEN Put(controllers, s,
                          [controllers[s] EXCEPT !.is_online = http_online(online),
                                                 !.last_seen = now])
                 ELSE controllers
    IN  CASE input \in {"no_json", "reserved"} ->
                 IngestRefuse(Answer("status", raw, online, NULL, FALSE,
                                     "bad_request", controllers))
          [] s \notin Present /\ input \notin {"no_json", "reserved"} ->
                 IngestRefuse(Answer("status", raw, online, NULL, FALSE,
                                     "not_found", controllers))
          [] s \in Present /\ input = "store_fails" ->
                 IngestReject(table, Answer("status", raw, online, NULL, FALSE,
                                            "error", controllers))
          [] OTHER ->
                 IngestCommit(table,
                     Answer("status", raw, online, NULL, FALSE, "ok", table))

\* PUT /api/controllers/<serial>: 405 for a reserved word; refreshes
\* last_seen only, after the location is converted (lines 343-353); a
\* timeout_seconds in the body is not read.
modify_controller(raw, timeout, input) ==
    LET s == upper(raw)
        table == IF s \in Present
                 THEN Put(controllers, s, [controllers[s] EXCEPT !.last_seen = now])
                 ELSE controllers
    IN  CASE input = "reserved" ->
                 IngestRefuse(Answer("modify", raw, "absent", timeout, FALSE,
                                     "not_allowed", controllers))
          [] input = "no_json" ->
                 IngestRefuse(Answer("modify", raw, "absent", timeout, FALSE,
                                     "bad_request", controllers))
          [] s \notin Present /\ input \notin {"no_json", "reserved"} ->
                 IngestRefuse(Answer("modify", raw, "absent", timeout, FALSE,
                                     "not_found", controllers))
          [] s \in Present /\ input = "bad_location" ->
                 IngestReject(controllers, Answer("modify", raw, "absent", timeout, FALSE,
                                                  "bad_location", controllers))
          [] s \in Present /\ input = "store_fails" ->
                 IngestReject(table, Answer("modify", raw, "absent", timeout, FALSE,
                                            "error", controllers))
          [] OTHER ->
                 IngestCommit(table,
                     Answer("modify", raw, "absent", timeout, FALSE, "ok", table))

\* MQTT <prefix>/<serial>/data (the serial upper-cased by _on_message, line
\* 116): find or create, then update_status().  With a non-empty 'data'
\* member a ControllerData row is added with controller_id = controller.id,
\* which for a controller created in this very message is still None: the
\* commit fails on the NOT NULL column and everything is rolled back.
handle_controller_data(raw, data) ==
    LET s == upper(raw)
    IN  IF s \in Present
        THEN LET table == Put(controllers, s, update_status(controllers[s]))
             IN  IngestCommit(table,
                     Answer("mqtt_data", raw, "absent", NULL, data, "ok", table))
        ELSE IF data
        THEN IngestRefuse(
                 Answer("mqtt_data", raw, "absent", NULL, data, "error", controllers))
        ELSE LET table == Put(controllers, s,
                              update_status(ControllerRow(FALSE, NULL, NULL)))
             IN  IngestCommit(table,
                     Answer("mqtt_data", raw, "absent", NULL, data, "created", table))

\* MQTT <prefix>/<serial>/status: is_online = status_data.get('online', False);
\* a message for an unknown serial is dropped.
handle_controller_status(raw, online) ==
    LET s == upper(raw)
    IN  IF s \in Present
        THEN LET table == Put(controllers, s,
                              [controllers[s] EXCEPT !.is_online = mqtt_online(online),
                                                     !.last_seen = now])
             IN  IngestCommit(table,
                     Answer("mqtt_status", raw, online, NULL, FALSE, "ok", table))
        ELSE IngestRefuse(
                 Answer("mqtt_status", raw, online, NULL, FALSE, "ignored", controllers))

\* The clock advances.
Tick ==
    /\ now < MaxTime
    /\ now' = now + 1
    /\ UNCHANGED <<offline_timeout, controllers, serviceVars, passVars, probe, peer, session, timerVars, event, mqtt>>

\* --------------------------------------------------- control surface
is_alive(t) == t # 0 /\ thread[t] \in {"test", "check", "wait"}

\* get_status(): the two fields that describe the service state.
get_status ==
    [enabled |-> enabled, running |-> is_alive(status_thread)]

CallFree == call.pc \in {"idle", "done"}

\* The call completed before the one now entered or returning.
PrevCall ==
    IF CallFree THEN [op |-> call.op, result |-> call.result] ELSE call.prev

\* A call returns.  start() returns True ("true") or False, and the result
\* names the return taken: "no_app" (line 29), "disabled" (line 33),
\* "not_alive" (line 55), "error" (line 61).
Return(op, result) ==
    [op |-> op, pc |-> "done", result |-> result, prev |-> PrevCall,
     refused |-> call.refused \/ result = "no_app"]

Enter(op, pc) ==
    [op |-> op, pc |-> pc, result |-> "none", prev |-> PrevCall,
     refused |-> call.refused]

\* The Thread objects not yet constructed.
Unborn == {t \in ThreadIds : thread[t] = "unborn"}

\* init_app(app)
init_app ==
    /\ CallFree
    /\ ~app
    /\ app' = TRUE
    /\ UNCHANGED <<now, offline_timeout, controllers, enabled, status_thread,
                   stop_event, thread, passVars, call, probe, peer, session, timerVars, event, mqtt>>

\* start() that skips the `if not self.enabled` test.
start_check_ignores_enabled ==
    /\ CallFree
    /\ call' = IF ~app THEN Return("start", "no_app")
               ELSE IF is_alive(status_thread) THEN Return("start", "true")
               ELSE Enter("start", "spawn")
    /\ UNCHANGED <<now, offline_timeout, controllers, app, enabled, status_thread,
                   stop_event, thread, passVars, probe, peer, session, timerVars, event, mqtt>>

\* start() that goes on to spawn without a Flask app.
start_check_ignores_app ==
    /\ CallFree
    /\ call' = IF ~enabled THEN Return("start", "disabled")
               ELSE IF is_alive(status_thread) THEN Return("start", "true")
               ELSE Enter("start", "spawn")
    /\ UNCHANGED <<now, offline_timeout, controllers, app, enabled, status_thread,
                   stop_event, thread, passVars, probe, peer, session, timerVars, event, mqtt>>

\* start() that spawns a worker although one is alive.
start_check_ignores_alive ==
    /\ CallFree
    /\ call' = IF ~app THEN Return("start", "no_app")
               ELSE IF ~enabled THEN Return("start", "disabled")
               ELSE Enter("start", "spawn")
    /\ UNCHANGED <<now, offline_timeout, controllers, app, enabled, status_thread,
                   stop_event, thread, passVars, probe, peer, session, timerVars, event, mqtt>>

\* start(), lines 27-39: the three early returns.  Thread objects are drawn
\* from ThreadIds, so a call that would spawn waits for one to be left.
start_check ==
    /\ CallFree
    /\ (app /\ enabled /\ ~is_alive(status_thread)) => Unborn # {}
    /\ call' = IF ~app THEN Return("start", "no_app")
               ELSE IF ~enabled THEN Return("start", "disabled")
               ELSE IF is_alive(status_thread) THEN Return("start", "true")
               ELSE Enter("start", "spawn")
    /\ UNCHANGED <<now, offline_timeout, controllers, app, enabled, status_thread,
                   stop_event, thread, passVars, probe, peer, session, timerVars, event, mqtt>>

\* start(), lines 41-44: clear the stop event, create and start the thread.
start_spawn ==
    /\ call.op = "start" /\ call.pc = "spawn"
    /\ Unborn # {}
    /\ LET t == CHOOSE x \in Unborn : \A y \in Unborn : x <= y
       IN  /\ stop_event' = FALSE
           /\ status_thread' = t
           /\ thread' = [thread EXCEPT ![t] = "test"]
    /\ call' = [call EXCEPT !.pc = "confirm"]
    /\ UNCHANGED <<now, offline_timeout, controllers, app, enabled, passVars, probe, peer, session, timerVars, event, mqtt>>

\* Thread.start() has raised and start() reports success all the same.
start_spawn_fails_reports_success ==
    /\ call.op = "start" /\ call.pc = "spawn"
    /\ Unborn # {}
    /\ LET t == CHOOSE x \in Unborn : \A y \in Unborn : x <= y
       IN  /\ stop_event' = FALSE
           /\ status_thread' = t
           /\ thread' = [thread EXCEPT ![t] = "failed"]
    /\ call' = Return("start", "true")
    /\ UNCHANGED <<now, offline_timeout, controllers, app, enabled, passVars, probe, peer, session, timerVars, event, mqtt>>

\* start(), lines 41-44 and 57-61: Thread.start() raises (the runtime refuses
\* a new thread).  The stop event is cleared and the Thread object assigned by
\* then; the object never runs, and the except clause returns False ("error").
start_spawn_fails ==
    /\ call.op = "start" /\ call.pc = "spawn"
    /\ Unborn # {}
    /\ LET t == CHOOSE x \in Unborn : \A y \in Unborn : x <= y
       IN  /\ stop_event' = FALSE
           /\ status_thread' = t
           /\ thread' = [thread EXCEPT ![t] = "failed"]
    /\ call' = Return("start", "error")
    /\ UNCHANGED <<now, offline_timeout, controllers, app, enabled, passVars, probe, peer, session, timerVars, event, mqtt>>

\* start(), lines 46-55: after the grace sleep, report whether the thread lives.
start_confirm ==
    /\ call.op = "start" /\ call.pc = "confirm"
    /\ call' = Return("start", IF is_alive(status_thread) THEN "true" ELSE "not_alive")
    /\ UNCHANGED <<now, offline_timeout, controllers, app, enabled, status_thread,
                   stop_event, thread, passVars, probe, peer, session, timerVars, event, mqtt>>

\* stop() that only signals the worker and leaves the service enabled.
stop_set_keeps_enabled ==
    /\ CallFree
    /\ stop_event' = TRUE
    /\ call' = Enter("stop", "join")
    /\ UNCHANGED <<now, offline_timeout, controllers, app, enabled, status_thread,
                   thread, passVars, probe, peer, session, timerVars, event, mqtt>>

\* stop(), lines 65-66.
stop_set ==
    /\ CallFree
    /\ enabled' = FALSE
    /\ stop_event' = TRUE
    /\ call' = Enter("stop", "join")
    /\ UNCHANGED <<now, offline_timeout, controllers, app, status_thread,
                   thread, passVars, probe, peer, session, timerVars, event, mqtt>>

\* stop() that joins without a timeout.
stop_join_without_timeout ==
    /\ call.op = "stop" /\ call.pc = "join"
    /\ ~is_alive(status_thread)
    /\ call' = Return("stop", "joined")
    /\ UNCHANGED <<now, offline_timeout, controllers, app, enabled, status_thread,
                   stop_event, thread, passVars, probe, peer, session, timerVars, event, mqtt>>

\* stop(), lines 67-68: join(timeout=5) returns when the worker has exited, or
\* after five seconds when the worker is still inside a pass (a store call
\* has no timeout of its own).
stop_join ==
    /\ call.op = "stop" /\ call.pc = "join"
    /\ \/ /\ ~is_alive(status_thread)
          /\ call' = Return("stop", "joined")
       \/ /\ is_alive(status_thread)
          /\ thread[status_thread] = "check"
          /\ call' = Return("stop", "timeout")
    /\ UNCHANGED <<now, offline_timeout, controllers, app, enabled, status_thread,
                   stop_event, thread, passVars, probe, peer, session, timerVars, event, mqtt>>

\* force_check() that runs its pass only on a service that is enabled.
force_check_only_when_enabled ==
    /\ pass[ForceCaller].pc = "idle"
    /\ IF app /\ enabled
       THEN check_scan(ForceCaller)
       ELSE /\ outcome' = [outcome EXCEPT ![ForceCaller] = "skipped"]
            /\ UNCHANGED <<controllers, pass, quiet>>
    /\ session' = [session EXCEPT ![ForceCaller] =
                      IF ~(app /\ enabled) THEN "closed"
                      ELSE IF pass'[ForceCaller].pc = "idle"
                      THEN app_context_exit("transaction")
                      ELSE "transaction"]
    /\ UNCHANGED <<now, offline_timeout, serviceVars, probe, peer, timerVars, event, mqtt>>

\* force_check(), lines 153-157: one pass in the caller's context, if an app
\* has been supplied; the call's first step is the scan.
force_check ==
    /\ pass[ForceCaller].pc = "idle"
    /\ IF app
       THEN check_scan(ForceCaller)
       ELSE /\ outcome' = [outcome EXCEPT ![ForceCaller] = "skipped"]
            /\ UNCHANGED <<controllers, pass, quiet>>
    /\ session' = [session EXCEPT ![ForceCaller] =
                      IF ~(app) THEN "closed"
                      ELSE IF pass'[ForceCaller].pc = "idle"
                      THEN app_context_exit("transaction")
                      ELSE "transaction"]
    /\ UNCHANGED <<now, offline_timeout, serviceVars, probe, peer, timerVars, event, mqtt>>

force_finish ==
    /\ check_finish(ForceCaller)
    /\ session' = [session EXCEPT ![ForceCaller] =
                      app_context_exit(IF outcome'[ForceCaller] = "committed"
                                       THEN "open"
                                       ELSE "transaction")]
    /\ UNCHANGED <<now, offline_timeout, serviceVars, probe, peer, timerVars, event, mqtt>>

\* -------------------------------------------------------- worker loop
\* A loop condition that reads the stop event only.
run_test_ignores_enabled(t) ==
    /\ thread[t] = "test"
    /\ thread' = [thread EXCEPT ![t] = IF ~stop_event THEN "check" ELSE "exited"]
    /\ UNCHANGED <<now, offline_timeout, controllers, app, enabled, status_thread,
                   stop_event, passVars, call, probe, peer, session, timerVars, event, mqtt>>

\* _run_status_checker, line 83: the loop condition.
run_test(t) ==
    /\ thread[t] = "test"
    /\ thread' = [thread EXCEPT ![t] =
                     IF enabled /\ ~stop_event THEN "check" ELSE "exited"]
    /\ UNCHANGED <<now, offline_timeout, controllers, app, enabled, status_thread,
                   stop_event, passVars, call, probe, peer, session, timerVars, event, mqtt>>

\* Lines 85-86: the pass inside its own app context; when it returns the
\* worker enters stop_event.wait().  (loop_* leave the timer open: run_* are
\* the steps with the length of the wait left open, timed_run_* the steps on
\* the clock.)
loop_scan(t) ==
    /\ thread[t] = "check" /\ pass[t].pc = "idle"
    /\ check_scan(t)
    /\ thread' = [thread EXCEPT ![t] = IF pass'[t].pc = "idle" THEN "wait" ELSE "check"]
    /\ session' = [session EXCEPT ![t] =
                      IF pass'[t].pc = "idle"
                      THEN app_context_exit("transaction")
                      ELSE "transaction"]
    /\ UNCHANGED <<now, offline_timeout, app, enabled, status_thread,
                   stop_event, call, probe, peer, event, mqtt>>

run_scan(t) ==
    loop_scan(t) /\ UNCHANGED timerVars

loop_finish(t) ==
    /\ thread[t] = "check"
    /\ check_finish(t)
    /\ thread' = [thread EXCEPT ![t] = "wait"]
    /\ session' = [session EXCEPT ![t] =
                      app_context_exit(IF outcome'[t] = "committed"
                                       THEN "open"
                                       ELSE "transaction")]
    /\ UNCHANGED <<now, offline_timeout, app, enabled, status_thread,
                   stop_event, call, probe, peer, event, mqtt>>

run_finish(t) ==
    loop_finish(t) /\ UNCHANGED timerVars

\* A wait that sleeps the interval out and goes back to the loop test.
run_wait_ignores_stop(t) ==
    /\ thread[t] = "wait"
    /\ thread' = [thread EXCEPT ![t] = "test"]
    /\ UNCHANGED <<now, offline_timeout, controllers, app, enabled, status_thread,
                   stop_event, passVars, call, probe, peer, session, timerVars, event, mqtt>>

\* Lines 93-98: stop_event.wait(interval) returns True as soon as the event is
\* set (break) and False once the interval has elapsed (next iteration).
loop_wait(t) ==
    /\ thread[t] = "wait"
    /\ thread' = [thread EXCEPT ![t] = IF stop_event THEN "exited" ELSE "test"]
    /\ UNCHANGED <<now, offline_timeout, controllers, app, enabled, status_thread,
                   stop_event, passVars, call, probe, peer, session, event, mqtt>>

run_wait(t) ==
    loop_wait(t) /\ UNCHANGED timerVars

\* ------------------------------------------------- the loop on the clock
\* A wait twice the configured interval.
WaitUntilTwice(t) == [due EXCEPT ![t] = now + 2 * check_interval]

\* A wait entered at `now` times out check_interval later.
WaitUntil(t) == [due EXCEPT ![t] = now + check_interval]

\* The loop test and the pass that follows are over MaxPassTime after the
\* wait returned, at the latest: the store answers within that time.
PassUntil(t) == [due EXCEPT ![t] = now + MaxPassTime]

timed_run_scan(t) ==
    /\ loop_scan(t)
    /\ due' = IF thread'[t] = "wait" THEN WaitUntil(t) ELSE due
    /\ UNCHANGED check_interval

timed_run_finish(t) ==
    /\ loop_finish(t)
    /\ due' = WaitUntil(t)
    /\ UNCHANGED check_interval

\* stop_event.wait(interval): returns at once when the event is set, and
\* otherwise when the interval has elapsed.
timed_run_wait(t) ==
    /\ stop_event \/ now >= due[t]
    /\ loop_wait(t)
    /\ due' = PassUntil(t)
    /\ UNCHANGED check_interval

\* The clock advances, but not past the end of a wait without the waiting
\* thread waking, nor past the time a pass takes at most.
TimedTick ==
    /\ now < Horizon
    /\ \A t \in ThreadIds : is_alive(t) => now < due[t]
    /\ now' = now + 1
    /\ UNCHANGED <<offline_timeout, controllers, serviceVars, passVars, probe, peer, session,
                   check_interval, due, event, mqtt>>

\* The exception of a failing pass leaves _check_controller_status and the
\* loop's own try block, and ends the thread.
run_scan_raises_kills_worker(t) ==
    /\ thread[t] = "check" /\ pass[t].pc = "idle"
    /\ check_scan_raises(t)
    /\ thread' = [thread EXCEPT ![t] = "exited"]
    /\ session' = [session EXCEPT ![t] =
                      app_context_exit("open")]
    /\ UNCHANGED <<now, offline_timeout, app, enabled, status_thread,
                   stop_event, call, probe, peer, timerVars, event, mqtt>>

\* Lines 84-90 around a pass whose scan raises: the error is caught inside
\* _check_controller_status (or, for app_context(), at line 87) and the
\* worker goes on to its wait.
run_scan_raises(t) ==
    /\ thread[t] = "check" /\ pass[t].pc = "idle"
    /\ check_scan_raises(t)
    /\ thread' = [thread EXCEPT ![t] = "wait"]
    /\ session' = [session EXCEPT ![t] =
                      app_context_exit("open")]
    /\ UNCHANGED <<now, offline_timeout, app, enabled, status_thread,
                   stop_event, call, probe, peer, timerVars, event, mqtt>>

\* The same around a pass whose commit raises.
run_finish_raises(t) ==
    /\ thread[t] = "check"
    /\ check_finish_raises(t)
    /\ thread' = [thread EXCEPT ![t] = "wait"]
    /\ session' = [session EXCEPT ![t] =
                      app_context_exit("open")]
    /\ UNCHANGED <<now, offline_timeout, app, enabled, status_thread,
                   stop_event, call, probe, peer, timerVars, event, mqtt>>

\* force_check() over a store that fails: the same except clause, in the
\* caller's context.
force_check_raises ==
    /\ pass[ForceCaller].pc = "idle"
    /\ app
    /\ check_scan_raises(ForceCaller)
    /\ session' = [session EXCEPT ![ForceCaller] =
                      app_context_exit("open")]
    /\ UNCHANGED <<now, offline_timeout, serviceVars, probe, peer, timerVars, event, mqtt>>

force_finish_raises ==
    /\ check_finish_raises(ForceCaller)
    /\ session' = [session EXCEPT ![ForceCaller] =
                      app_context_exit("open")]
    /\ UNCHANGED <<now, offline_timeout, serviceVars, probe, peer, timerVars, event, mqtt>>

\* ------------------------------------------------------ specifications
NoCall == [op |-> "none", pc |-> "idle", result |-> "none",
           prev |-> [op |-> "none", result |-> "none"], refused |-> FALSE]

\* No call in progress in the second execution context.
NoPeer == [op |-> "none", pc |-> "idle"]

NoProbe == [applied |-> FALSE, c |-> ControllerRow(FALSE, NULL, NULL),
            default1 |-> 0, default2 |-> 0, utcnow |-> 0,
            stale1 |-> FALSE, stale2 |-> FALSE]

\* Specifications that leave the length of the wait open keep no timer.
Untimed ==
    /\ check_interval = MaxInterval
    /\ due = [t \in ThreadIds |-> 0]

\* The service as constructed: ControllerStatusService.__init__, lines 15-19.
Constructed ==
    /\ app = FALSE
    /\ enabled = TRUE
    /\ status_thread = 0
    /\ stop_event = FALSE
    /\ thread = [t \in ThreadIds |-> "unborn"]
    /\ pass = [r \in Runners |-> NoPass]
    /\ outcome = [r \in Runners |-> "none"]
    /\ quiet = [r \in Runners |-> TRUE]
    /\ call = NoCall
    /\ Untimed
    /\ event = NoEvent(FALSE)
    /\ peer = NoPeer
    /\ session = [r \in Sessions |-> "closed"]
    /\ mqtt = NoMqtt

\* The service as run.py leaves it: init_app(app) and start() have returned.
Bootstrapped ==
    /\ app = TRUE
    /\ enabled = TRUE
    /\ status_thread = 1
    /\ stop_event = FALSE
    /\ thread = [t \in ThreadIds |-> IF t = 1 THEN "test" ELSE "unborn"]
    /\ pass = [r \in Runners |-> NoPass]
    /\ outcome = [r \in Runners |-> "none"]
    /\ quiet = [r \in Runners |-> TRUE]
    /\ call = [op |-> "start", pc |-> "done", result |-> "true",
               prev |-> [op |-> "none", result |-> "none"], refused |-> FALSE]
    /\ Untimed
    /\ event = NoEvent(FALSE)
    /\ peer = NoPeer
    /\ session = [r \in Sessions |-> "closed"]
    /\ mqtt = NoMqtt

\* Rows a store can hold when the process starts: seen just now or never,
\* flagged online or not, with or without a timeout override.
InitialRows ==
    {ControllerRow(o, ls, ts) :
        o \in BOOLEAN, ls \in {NULL, 0}, ts \in {NULL} \cup Timeouts}

InitialStores ==
    UNION {[S -> InitialRows] : S \in SUBSET Serials}

\* The requests of the six adapters, for serials spelt as in `raws`, bodies
\* with a timeout_seconds from `timeouts`, status payloads from `onlines` and
\* MQTT data payloads with or without a 'data' member as in `datas`.
IngestFrom(raws, timeouts, onlines, datas, inputs) ==
    \E raw \in raws :
        \/ \E timeout \in timeouts, input \in inputs :
              register_controller(raw, timeout, input)
        \/ \E input \in inputs : update_controller_data(raw, input)
        \/ \E online \in onlines, input \in inputs :
              update_controller_status(raw, online, input)
        \/ \E timeout \in timeouts, input \in inputs :
              modify_controller(raw, timeout, input)
        \/ \E data \in datas : handle_controller_data(raw, data)
        \/ \E online \in onlines : handle_controller_status(raw, online)

\* The requests that change the store, one spelling and one body each.
Ingest ==
    IngestFrom(Serials, {NULL}, {"true", "false"}, {FALSE}, {"valid"})

Worker ==
    \E t \in ThreadIds :
        \/ run_test(t)
        \/ run_scan(t)
        \/ run_finish(t)
        \/ run_wait(t)

\* The store under reconciliation: a running service, maintenance force
\* checks, the ingestion adapters and the clock.
InitPass ==
    /\ now = 0
    /\ offline_timeout \in 1 .. MaxTimeout
    /\ controllers \in InitialStores
    /\ Bootstrapped
    /\ probe = NoProbe

NextPass ==
    \/ Tick
    \/ Ingest
    \/ force_check
    \/ force_finish
    \/ Worker

\* A pass over a store that fails it.
StoreFault ==
    \/ force_check_raises
    \/ force_finish_raises
    \/ \E t \in ThreadIds :
          \/ run_scan_raises(t)
          \/ run_finish_raises(t)

SpecPass == InitPass /\ [][NextPass]_vars

\* The service life cycle: the control surface, the worker and force checks
\* over a store that holds, per controller, a row that is offline, online
\* and never seen (stale), or online and just seen (fresh).
ServiceRows ==
    {ControllerRow(FALSE, NULL, NULL), ControllerRow(TRUE, NULL, NULL),
     ControllerRow(TRUE, 0, NULL)}

InitService ==
    /\ now = 0
    /\ offline_timeout \in 1 .. MaxTimeout
    /\ controllers \in [Serials -> ServiceRows]
    /\ Constructed
    /\ probe = NoProbe

NextService ==
    \/ init_app
    \/ start_check
    \/ start_spawn
    \/ start_spawn_fails
    \/ start_confirm
    \/ stop_set
    \/ stop_join
    \/ force_check
    \/ force_finish
    \/ Worker
    \/ StoreFault

SpecService == InitService /\ [][NextService]_vars

\* The running worker on the clock, over a store no request reaches: rows
\* seen at boot or never, with or without a timeout of their own.
InitTimed ==
    /\ now = 0
    /\ offline_timeout \in 1 .. MaxTimeout
    /\ controllers \in [Serials -> {ControllerRow(o, ls, ts) :
            o \in BOOLEAN, ls \in {NULL, 0}, ts \in {NULL} \cup Timeouts}]
    /\ app = TRUE
    /\ enabled = TRUE
    /\ status_thread = 1
    /\ stop_event = FALSE
    /\ thread = [t \in ThreadIds |-> IF t = 1 THEN "test" ELSE "unborn"]
    /\ pass = [r \in Runners |-> NoPass]
    /\ outcome = [r \in Runners |-> "none"]
    /\ quiet = [r \in Runners |-> TRUE]
    /\ call = [op |-> "start", pc |-> "done", result |-> "true",
               prev |-> [op |-> "none", result |-> "none"], refused |-> FALSE]
    /\ probe = NoProbe
    /\ check_interval \in 1 .. MaxInterval
    /\ due = [t \in ThreadIds |-> MaxPassTime]
    /\ event = NoEvent(FALSE)
    /\ peer = NoPeer
    /\ session = [r \in Sessions |-> "closed"]
    /\ mqtt = NoMqtt

NextTimed ==
    \/ TimedTick
    \/ \E t \in ThreadIds :
          \/ run_test(t)
          \/ timed_run_scan(t)
          \/ timed_run_finish(t)
          \/ timed_run_wait(t)

SpecTimed == InitTimed /\ [][NextTimed]_vars

\* The same under the scheduling the runtime gives: a thread that can take its
\* next step takes it (the loop test, the return from the wait), and a join
\* that can return returns.  Nothing is assumed of the store: a call into it
\* may never come back.
FairService ==
    /\ SpecService
    /\ WF_vars(stop_join)
    /\ \A t \in ThreadIds :
          /\ WF_vars(run_test(t))
          /\ WF_vars(run_wait(t))

\* The ingestion adapters on their own, every request recorded with its
\* answer: serials in both spellings, bodies with and without a timeout,
\* status payloads with and without 'online', over a store of rows seen at
\* boot, with or without a timeout of their own.
IngestRows ==
    {ControllerRow(o, 0, ts) : o \in BOOLEAN, ts \in {NULL, MaxTimeout}}

InitIngest ==
    /\ now = 0
    /\ offline_timeout \in 1 .. MaxTimeout
    /\ controllers \in UNION {[S -> IngestRows] : S \in SUBSET Serials}
    /\ app = FALSE
    /\ enabled = TRUE
    /\ status_thread = 0
    /\ stop_event = FALSE
    /\ thread = [t \in ThreadIds |-> "unborn"]
    /\ pass = [r \in Runners |-> NoPass]
    /\ outcome = [r \in Runners |-> "none"]
    /\ quiet = [r \in Runners |-> TRUE]
    /\ call = NoCall
    /\ Untimed
    /\ probe = NoProbe
    /\ event = NoEvent(TRUE)
    /\ peer = NoPeer
    /\ session = [r \in Sessions |-> IF r = MqttClient THEN "open" ELSE "closed"]
    /\ mqtt = NoMqtt

NextIngest ==
    \/ Tick
    \/ IngestFrom(RawSerials, {NULL} \cup Timeouts, OnlinePayloads, BOOLEAN, {"valid"})

SpecIngest == InitIngest /\ [][NextIngest]_vars

\* The adapters under requests of every kind, those the handlers reject and
\* those the store fails included.
NextReject ==
    \/ Tick
    \/ IngestFrom(Serials, {NULL}, {"true", "false"}, {TRUE}, Inputs)

SpecReject == InitIngest /\ [][NextReject]_vars

\* ------------------------------------------ a second execution context
\* start() and stop() take no lock: a second thread of the process can be
\* anywhere inside its own call while the first is inside one.  `peer` is
\* that thread's position; its steps are the steps of start() and stop().

\* start(), lines 27-39, in the second context.
peer_start_check ==
    /\ peer.pc = "idle"
    /\ (app /\ enabled /\ ~is_alive(status_thread)) => Unborn # {}
    /\ peer' = IF app /\ enabled /\ ~is_alive(status_thread)
               THEN [op |-> "start", pc |-> "spawn"]
               ELSE [op |-> "start", pc |-> "idle"]
    /\ UNCHANGED <<now, offline_timeout, controllers, serviceVars, passVars,
                   probe, timerVars, event, session, mqtt>>

\* start(), lines 41-44, in the second context.
peer_start_spawn ==
    /\ peer.op = "start" /\ peer.pc = "spawn"
    /\ Unborn # {}
    /\ LET t == CHOOSE x \in Unborn : \A y \in Unborn : x <= y
       IN  /\ stop_event' = FALSE
           /\ status_thread' = t
           /\ thread' = [thread EXCEPT ![t] = "test"]
    /\ peer' = [peer EXCEPT !.pc = "confirm"]
    /\ UNCHANGED <<now, offline_timeout, controllers, app, enabled, passVars, call,
                   probe, timerVars, event, session, mqtt>>

\* start(), lines 46-55, in the second context.
peer_start_confirm ==
    /\ peer.op = "start" /\ peer.pc = "confirm"
    /\ peer' = [peer EXCEPT !.pc = "idle"]
    /\ UNCHANGED <<now, offline_timeout, controllers, serviceVars, passVars,
                   probe, timerVars, event, session, mqtt>>

\* stop(), lines 65-66, in the second context.
peer_stop_set ==
    /\ peer.pc = "idle"
    /\ enabled' = FALSE
    /\ stop_event' = TRUE
    /\ peer' = [op |-> "stop", pc |-> "join"]
    /\ UNCHANGED <<now, offline_timeout, controllers, app, status_thread, thread,
                   passVars, call, probe, timerVars, event, session, mqtt>>

\* stop(), lines 67-68, in the second context.
peer_stop_join ==
    /\ peer.op = "stop" /\ peer.pc = "join"
    /\ \/ ~is_alive(status_thread)
       \/ is_alive(status_thread) /\ thread[status_thread] = "check"
    /\ peer' = [peer EXCEPT !.pc = "idle"]
    /\ UNCHANGED <<now, offline_timeout, controllers, serviceVars, passVars,
                   probe, timerVars, event, session, mqtt>>

Peer ==
    \/ peer_start_check
    \/ peer_start_spawn
    \/ peer_start_confirm
    \/ peer_stop_set
    \/ peer_stop_join

\* The control surface called from two execution contexts at once, with the
\* workers they spawn, over a store that may fail a pass.
InitRace ==
    /\ now = 0
    /\ offline_timeout \in 1 .. MaxTimeout
    /\ controllers \in [Serials -> ServiceRows]
    /\ Constructed
    /\ probe = NoProbe

NextRace ==
    \/ init_app
    \/ start_check
    \/ start_spawn
    \/ start_confirm
    \/ stop_set
    \/ stop_join
    \/ Peer
    \/ Worker
    \/ \E t \in ThreadIds :
          \/ run_scan_raises(t)
          \/ run_finish_raises(t)

SpecRace == InitRace /\ [][NextRace]_vars

\* The same with threads that run: a worker that can take its next step takes
\* it, and a pass, once begun, comes to its end.
FairRace ==
    /\ SpecRace
    /\ \A t \in ThreadIds :
          /\ WF_vars(run_test(t))
          /\ WF_vars(run_scan(t))
          /\ WF_vars(run_finish(t))
          /\ WF_vars(run_wait(t))

\* The mark-online writes of the adapters, racing the worker's passes over a
\* store whose rows are all online when the process starts: a row is offline
\* here only if a pass wrote it.
OnlineRows ==
    {ControllerRow(TRUE, ls, ts) : ls \in {NULL, 0}, ts \in {NULL} \cup Timeouts}

MarkOnline ==
    \E raw \in Serials :
        \/ register_controller(raw, NULL, "valid")
        \/ update_controller_data(raw, "valid")
        \/ update_controller_status(raw, "true", "valid")
        \/ handle_controller_data(raw, FALSE)
        \/ handle_controller_status(raw, "true")

InitLastWriter ==
    /\ now = 0
    /\ offline_timeout \in 1 .. MaxTimeout
    /\ controllers \in UNION {[S -> OnlineRows] : S \in SUBSET Serials}
    /\ Bootstrapped
    /\ probe = NoProbe

NextLastWriter ==
    \/ Tick
    \/ MarkOnline
    \/ Worker

SpecLastWriter == InitLastWriter /\ [][NextLastWriter]_vars

\* ------------------------------------------------- the MQTT service
\* MQTTService, mqtt_service.py: start(), the client thread's retry loop
\* (_run_mqtt_client), the callbacks that run inside loop_forever(), and
\* stop() in the caller's context.  mqtt.pc is the client thread's position:
\* "test" (the while condition, line 53), "connect" (lines 55-69), "loop"
\* (loop_forever(), line 75), "sleep" (line 87), "exited".

\* self.max_retries
max_retries == 5

mqttFrame == <<now, offline_timeout, controllers, serviceVars, passVars, probe,
               timerVars, event, peer, session>>

\* start(), lines 27-34: the thread is created for an enabled service only
\* (init_app has read MQTT_ENABLED from the configuration).
mqtt_start ==
    /\ mqtt.pc = "unstarted"
    /\ mqtt.enabled
    /\ mqtt' = [mqtt EXCEPT !.pc = "test"]
    /\ UNCHANGED mqttFrame

\* A loop condition that counts the attempts and does not read `enabled`.
mqtt_loop_test_ignores_enabled ==
    /\ mqtt.pc = "test"
    /\ mqtt' = [mqtt EXCEPT !.pc =
                   IF mqtt.retry_count < max_retries THEN "connect" ELSE "exited"]
    /\ UNCHANGED mqttFrame

\* Line 53: while self.enabled and self.retry_count < self.max_retries.
mqtt_loop_test ==
    /\ mqtt.pc = "test"
    /\ mqtt' = [mqtt EXCEPT !.pc =
                   IF mqtt.enabled /\ mqtt.retry_count < max_retries
                   THEN "connect"
                   ELSE "exited"]
    /\ UNCHANGED mqttFrame

\* Lines 55-75: client.connect() returns; the count is reset and the thread
\* enters loop_forever().
mqtt_connect ==
    /\ mqtt.pc = "connect"
    /\ mqtt' = [mqtt EXCEPT !.retry_count = 0, !.pc = "loop", !.disconnect = FALSE]
    /\ UNCHANGED mqttFrame

\* An except clause that counts the failure and goes on without a limit.
mqtt_raises_without_limit ==
    /\ mqtt.pc \in {"connect", "loop"}
    /\ mqtt' = [mqtt EXCEPT !.retry_count = mqtt.retry_count + 1, !.pc = "sleep"]
    /\ UNCHANGED mqttFrame

\* Lines 77-87: client.connect() or loop_forever() raises.  The count goes up
\* by one; at max_retries the service disables itself and the loop is left,
\* otherwise the thread sleeps retry_delay.
mqtt_raises ==
    /\ mqtt.pc \in {"connect", "loop"}
    /\ LET count == mqtt.retry_count + 1
       IN  mqtt' = IF count >= max_retries
                   THEN [mqtt EXCEPT !.retry_count = count, !.enabled = FALSE,
                                     !.pc = "exited"]
                   ELSE [mqtt EXCEPT !.retry_count = count, !.pc = "sleep"]
    /\ UNCHANGED mqttFrame

\* Line 87: time.sleep(self.retry_delay) is over.
mqtt_sleep ==
    /\ mqtt.pc = "sleep"
    /\ mqtt' = [mqtt EXCEPT !.pc = "test"]
    /\ UNCHANGED mqttFrame

\* _on_connect, lines 90-108, called from loop_forever(): rc = 0 sets
\* is_connected, any other return code clears it.
on_connect(rc) ==
    /\ mqtt.pc = "loop"
    /\ ~mqtt.disconnect
    /\ mqtt' = [mqtt EXCEPT !.is_connected = (rc = 0)]
    /\ UNCHANGED mqttFrame

\* _on_message, lines 110-126, called from loop_forever() for a message on a
\* subscribed topic.
on_message ==
    /\ mqtt.pc = "loop"
    /\ mqtt.is_connected
    /\ \E raw \in RawSerials :
          \/ \E data \in BOOLEAN : handle_controller_data(raw, data)
          \/ \E online \in OnlinePayloads : handle_controller_status(raw, online)

\* _on_disconnect, lines 128-131, and the return of loop_forever() after
\* client.disconnect(): the with block ends and the loop tests its condition.
on_disconnect ==
    /\ mqtt.pc = "loop"
    /\ mqtt.disconnect
    /\ mqtt' = [mqtt EXCEPT !.is_connected = FALSE, !.disconnect = FALSE, !.pc = "test"]
    /\ UNCHANGED mqttFrame

\* stop(), lines 38-39: disconnect a client that is connected.
mqtt_stop_disconnect ==
    /\ mqtt.stop = "idle"
    /\ mqtt' = [mqtt EXCEPT !.disconnect = mqtt.disconnect \/ mqtt.is_connected,
                            !.stop = "disable"]
    /\ UNCHANGED mqttFrame

\* stop(), line 40: self.enabled = False.
mqtt_stop_disable ==
    /\ mqtt.stop = "disable"
    /\ mqtt' = [mqtt EXCEPT !.enabled = FALSE, !.stop = "done"]
    /\ UNCHANGED mqttFrame

\* The MQTT service over a broker that accepts, refuses and drops
\* connections, with the messages it delivers and a stop() at any moment.
InitMqtt ==
    /\ now = 0
    /\ offline_timeout \in 1 .. MaxTimeout
    /\ controllers \in UNION {[S -> IngestRows] : S \in SUBSET Serials}
    /\ app = FALSE
    /\ enabled = TRUE
    /\ status_thread = 0
    /\ stop_event = FALSE
    /\ thread = [t \in ThreadIds |-> "unborn"]
    /\ pass = [r \in Runners |-> NoPass]
    /\ outcome = [r \in Runners |-> "none"]
    /\ quiet = [r \in Runners |-> TRUE]
    /\ call = NoCall
    /\ Untimed
    /\ probe = NoProbe
    /\ event = NoEvent(FALSE)
    /\ peer = NoPeer
    /\ session = [r \in Sessions |-> "closed"]
    /\ mqtt = NoMqtt

NextMqtt ==
    \/ mqtt_start
    \/ mqtt_loop_test
    \/ mqtt_connect
    \/ mqtt_raises
    \/ mqtt_sleep
    \/ \E rc \in {0, 1} : on_connect(rc)
    \/ on_message
    \/ on_disconnect
    \/ mqtt_stop_disconnect
    \/ mqtt_stop_disable

SpecMqtt == InitMqtt /\ [][NextMqtt]_vars

\* The evaluator on its own: is_stale applied to one controller under two
\* global defaults at the same instant.
ProbeInputs ==
    [applied : {FALSE},
     c : {ControllerRow(o, ls, ts) :
             o \in BOOLEAN, ls \in {NULL} \cup Times, ts \in {NULL} \cup Timeouts},
     default1 : Timeouts,
     default2 : Timeouts,
     utcnow : Times,
     stale1 : {FALSE},
     stale2 : {FALSE}]

InitStale ==
    /\ now = 0
    /\ offline_timeout \in 1 .. MaxTimeout
    /\ controllers = [s \in {} |-> ControllerRow(FALSE, NULL, NULL)]
    /\ Constructed
    /\ probe \in {p \in ProbeInputs : p.c.last_seen = NULL \/ p.c.last_seen <= p.utcnow}

apply_is_stale ==
    /\ ~probe.applied
    /\ probe' = [probe EXCEPT
                    !.applied = TRUE,
                    !.stale1 = is_stale(probe.c, probe.default1, probe.utcnow),
                    !.stale2 = is_stale(probe.c, probe.default2, probe.utcnow)]
    /\ UNCHANGED <<now, offline_timeout, controllers, serviceVars, passVars,
                   timerVars, event, peer, session, mqtt>>

NextStale == apply_is_stale

SpecStale == InitStale /\ [][NextStale]_vars

\* ------------------------------------------------------------ claims
\* What the specification calls stale, written out from its definition: never
\* seen, or an age strictly beyond the effective timeout.
EffectiveTimeout(c, default) ==
    IF c.timeout_seconds # NULL THEN c.timeout_seconds ELSE default

StaleBySpec(c, default, t) ==
    \/ c.last_seen = NULL
    \/ t - c.last_seen > EffectiveTimeout(c, default)

FinishStep(r) == pass[r].pc = "finish" /\ pass'[r].pc = "idle"

ScanStep(r) ==
    /\ pass[r].pc = "idle"
    /\ \/ pass'[r].pc = "finish"
       \/ outcome[r] # "empty" /\ outcome'[r] = "empty"

\* C1: after one force_check() with no concurrent writer, a controller that
\* was online before the pass is offline afterwards exactly when it was stale
\* at the time of the pass (never seen, or older than its own timeout, or than
\* the global default when it has none).
C1_ForceCheckOfflineIffStale ==
    [][(FinishStep(ForceCaller) /\ quiet[ForceCaller]) =>
          \A s \in DOMAIN controllers :
              controllers[s].is_online =>
                  (~controllers'[s].is_online <=>
                       StaleBySpec(controllers[s], offline_timeout,
                                   pass[ForceCaller].current_time))]_vars

\* Scenarios A and B in one pass: the controller with an override below its
\* age went offline, the one without override, of the same age and within the
\* global default, stayed online.
C1_Witness ==
    /\ outcome[ForceCaller] = "committed"
    /\ quiet[ForceCaller]
    /\ pass[ForceCaller].pc = "idle"
    /\ \E a, b \in DOMAIN controllers :
          /\ ~controllers[a].is_online
          /\ controllers[a].timeout_seconds # NULL
          /\ controllers[a].last_seen # NULL
          /\ now - controllers[a].last_seen > controllers[a].timeout_seconds
          /\ controllers[b].is_online
          /\ controllers[b].timeout_seconds = NULL
          /\ controllers[b].last_seen = controllers[a].last_seen
          /\ now - controllers[b].last_seen < offline_timeout

\* C3: is_stale compares strictly: with last_seen set and effective timeout T
\* it is false at an age of exactly T or less and true at any age above T.
C3_StrictBoundary ==
    (probe.applied /\ probe.c.last_seen # NULL) =>
        LET T == EffectiveTimeout(probe.c, probe.default1)
            age == probe.utcnow - probe.c.last_seen
        IN  /\ age <= T => ~probe.stale1
            /\ age > T => probe.stale1

\* An evaluation exactly at the boundary, with a positive timeout.
C3_Witness ==
    /\ probe.applied
    /\ probe.c.last_seen # NULL
    /\ probe.c.timeout_seconds # NULL
    /\ probe.c.timeout_seconds > 0
    /\ probe.utcnow - probe.c.last_seen = probe.c.timeout_seconds
    /\ ~probe.stale1

\* C5: with timeout_seconds set (zero included) the verdict does not depend
\* on the global default; the default decides only when timeout_seconds is
\* null.
C5_OverridePrecedence ==
    probe.applied =>
        /\ probe.c.timeout_seconds # NULL => probe.stale1 = probe.stale2
        /\ (probe.c.timeout_seconds = NULL /\ probe.c.last_seen # NULL) =>
               /\ probe.stale1 = (probe.utcnow - probe.c.last_seen > probe.default1)
               /\ probe.stale2 = (probe.utcnow - probe.c.last_seen > probe.default2)

\* A zero override evaluated under two defaults that would disagree.
C5_Witness ==
    /\ probe.applied
    /\ probe.c.timeout_seconds = 0
    /\ probe.c.last_seen # NULL
    /\ probe.utcnow - probe.c.last_seen > probe.default1
    /\ probe.utcnow - probe.c.last_seen <= probe.default2
    /\ probe.stale1 /\ probe.stale2

\* C2: a pass, by the worker or by force_check and whatever the ingestion
\* handlers do in between, writes nothing but is_online of controllers it
\* found stale, and that only from true to false: no last_seen, no
\* timeout_seconds, no flip to online, no row created or deleted.  What it
\* finds stale is what was stale, on the values it read, when it scanned.
C2_PassFrame ==
    [][\A r \in Runners :
          /\ ScanStep(r) =>
                /\ controllers' = controllers
                /\ \A s \in pass'[r].dirty :
                      /\ s \in DOMAIN controllers
                      /\ controllers[s].is_online
                      /\ StaleBySpec(controllers[s], offline_timeout, now)
          /\ FinishStep(r) =>
                /\ DOMAIN controllers' = DOMAIN controllers
                /\ \A s \in DOMAIN controllers :
                      /\ controllers'[s].last_seen = controllers[s].last_seen
                      /\ controllers'[s].timeout_seconds = controllers[s].timeout_seconds
                      /\ (controllers'[s].is_online # controllers[s].is_online) =>
                            /\ controllers[s].is_online
                            /\ ~controllers'[s].is_online
                            /\ s \in pass[r].dirty]_vars

\* Scenario C after a worker pass that an ingestion handler interleaved with:
\* the stale controller is offline, the other one online and within its
\* timeout.
C2_Witness ==
    \E t \in ThreadIds :
        /\ outcome[t] = "committed"
        /\ ~quiet[t]
        /\ pass[t].pc = "idle"
        /\ \E a, b \in DOMAIN controllers :
              /\ ~controllers[a].is_online
              /\ StaleBySpec(controllers[a], offline_timeout, now)
              /\ controllers[b].is_online
              /\ ~StaleBySpec(controllers[b], offline_timeout, now)

\* C4: a controller never seen is stale whatever its timeout_seconds and the
\* global default, so a pass that scans it online finds it stale and its
\* commit leaves it offline.
C4_NeverSeenIsStale ==
    [][\A r \in Runners :
          /\ ScanStep(r) =>
                \A s \in DOMAIN controllers :
                    (controllers[s].is_online /\ controllers[s].last_seen = NULL)
                        => s \in pass'[r].dirty
          /\ FinishStep(r) =>
                \A s \in pass[r].dirty : ~controllers'[s].is_online]_vars

\* A store of one never-seen controller with a timeout override, offline
\* after a committed pass.
C4_Witness ==
    \E r \in Runners :
        /\ outcome[r] = "committed"
        /\ pass[r].pc = "idle"
        /\ \E s \in Serials :
              /\ DOMAIN controllers = {s}
              /\ controllers[s].last_seen = NULL
              /\ controllers[s].timeout_seconds # NULL
              /\ controllers[s].timeout_seconds >= offline_timeout
              /\ ~controllers[s].is_online

\* C6: a pass commits exactly when it turned at least one controller
\* offline: a scan that finds no online controller ends the pass with no
\* write and no commit, and so does a pass none of whose controllers is stale.
C6_CommitIffTransition ==
    [][\A r \in Runners :
          /\ ScanStep(r) =>
                /\ controllers' = controllers
                /\ outcome'[r] # "committed"
                /\ (OnlineControllers(controllers) = {}) =>
                      (pass'[r].pc = "idle" /\ outcome'[r] = "empty")
          /\ FinishStep(r) =>
                /\ (outcome'[r] = "committed") <=> (pass[r].dirty # {})
                /\ controllers' # controllers => outcome'[r] = "committed"
                /\ (pass[r].dirty = {}) =>
                      (controllers' = controllers /\ outcome'[r] = "unchanged")
          /\ (outcome'[r] # outcome[r] /\ outcome'[r] = "committed") => FinishStep(r)]_vars

\* Both kinds of no-op pass have ended: a worker pass that scanned online
\* controllers none of which was stale, and a force check that found no
\* online controller.
C6_Witness ==
    \E t \in ThreadIds :
        /\ outcome[t] = "unchanged"
        /\ outcome[ForceCaller] = "empty"
        /\ pass[t].pc = "idle"
        /\ pass[ForceCaller].pc = "idle"

\* The service states of the specification, read off the fields.
Running == is_alive(status_thread) /\ enabled /\ ~stop_event

StartStep == CallFree /\ call'.op = "start" /\ call' # call

StopSetStep == CallFree /\ call'.op = "stop" /\ call'.pc = "join"

StopReturnStep == call.op = "stop" /\ call.pc = "join" /\ call'.pc = "done"

\* C7 as stated: after every stop() the service is Stopped, with no worker
\* alive and get_status() reporting neither running nor enabled.
C7_StoppedAfterEveryStop ==
    (call.op = "stop" /\ call.pc = "done") =>
        (~get_status.running /\ ~get_status.enabled)

\* C7 as amended: stop() leaves the service disabled with the stop signal
\* set, and with no worker alive whenever the join did not time out (it times
\* out only on a worker still inside a pass); a second stop() in succession
\* changes no field of the service.
C7_StopIdempotent ==
    [][/\ StopSetStep =>
             /\ ~enabled' /\ stop_event'
             /\ UNCHANGED <<app, status_thread, thread>>
             /\ (call.op = "stop") => UNCHANGED <<enabled, stop_event>>
       /\ StopReturnStep =>
             /\ ~enabled' /\ stop_event'
             /\ UNCHANGED <<app, enabled, status_thread, stop_event, thread>>
             /\ (call'.result = "joined") => ~is_alive(status_thread)
             /\ (call'.result = "timeout") => thread[status_thread] = "check"]_vars

\* The second of two stop() calls in succession has returned, on a service
\* whose worker had been started and has exited.
C7_Witness ==
    /\ call.op = "stop" /\ call.pc = "done"
    /\ call.prev.op = "stop"
    /\ status_thread # 0
    /\ thread[status_thread] = "exited"
    /\ ~enabled /\ stop_event

\* C8: start() on a service that stop() has brought to Stopped, with an app
\* supplied, spawns a new worker, returns True and leaves the service Running.
C8_RestartAfterStop ==
    (/\ call.op = "start" /\ call.pc = "done"
     /\ call.prev = [op |-> "stop", result |-> "joined"]
     /\ call.result # "no_app") =>
        (call.result = "true" /\ Running)

\* A start() after a stop() that joined the worker has returned, refused
\* because the service is still disabled.
C8_Witness ==
    /\ app
    /\ call.op = "start" /\ call.pc = "done" /\ call.result = "disabled"
    /\ call.prev = [op |-> "stop", result |-> "joined"]
    /\ ~is_alive(status_thread)

\* C9: start() on a Running service returns True at once and changes
\* nothing: no second thread, the stop event not cleared, the worker left as
\* it is.
C9_StartWhileRunningIsNoOp ==
    [][(StartStep /\ Running) =>
          /\ call'.pc = "done"
          /\ call'.result = "true"
          /\ UNCHANGED <<app, enabled, status_thread, stop_event, thread>>]_vars

\* A second start() has returned True after a first one had, with the one
\* worker alive.
C9_Witness ==
    /\ call.op = "start" /\ call.pc = "done" /\ call.result = "true"
    /\ call.prev = [op |-> "start", result |-> "true"]
    /\ Running
    /\ Cardinality({t \in ThreadIds : thread[t] # "unborn"}) = 1

\* C10: start() without an app returns False at once, spawns no thread and
\* leaves every field of the service as constructed or stopped.
C10_StartWithoutAppFails ==
    [][(StartStep /\ ~app) =>
          /\ call'.pc = "done"
          /\ call'.result = "no_app"
          /\ UNCHANGED <<app, enabled, status_thread, stop_event, thread>>
          /\ status_thread' = 0
          /\ \A t \in ThreadIds : thread'[t] = "unborn"]_vars

\* After a start() refused for want of an app, init_app and a later start()
\* that returned True with the worker alive.
C10_Witness ==
    /\ call.refused
    /\ call.op = "start" /\ call.pc = "done" /\ call.result = "true"
    /\ Running

\* A start() call returns: from its guards, from the failed spawn or from the
\* confirmation.
StartReturnStep == call' # call /\ call'.op = "start" /\ call'.pc = "done"

FailStep(t) ==
    thread[t] = "check" /\ thread'[t] # "check" /\ outcome'[t] = "failed"

\* C12: a pass that raises, at its scan or at its commit, does not end the
\* worker: the worker is alive and waiting afterwards, the store is as it
\* was, and unless stop() is called the worker leaves the wait and enters
\* another pass.
C12_FailedPassKeepsWorker ==
    /\ [][\A t \in ThreadIds :
             FailStep(t) =>
                 /\ thread'[t] = "wait"
                 /\ is_alive(t)'
                 /\ controllers' = controllers]_vars
    /\ \A t \in ThreadIds :
          (thread[t] = "wait" /\ outcome[t] = "failed")
              ~> (stop_event \/ thread[t] = "check")

\* The worker is back in the loop body after a pass of its own that failed.
C12_Witness ==
    \E t \in ThreadIds :
        /\ thread[t] = "check"
        /\ outcome[t] = "failed"
        /\ pass[t].pc = "idle"
        /\ ~stop_event

\* C13: a worker waiting between passes when the stop event is set leaves the
\* wait for the end of its loop, not for another pass, and does so without
\* the interval having to elapse; a worker that has exited runs nothing more.
C13_StopInterruptsWait ==
    /\ [][\A t \in ThreadIds :
             /\ (thread[t] = "wait" /\ stop_event) =>
                   /\ thread'[t] \in {"wait", "exited"}
                   /\ pass'[t] = pass[t]
                   /\ outcome'[t] = outcome[t]
             /\ (thread[t] = "exited") =>
                   /\ thread'[t] = "exited"
                   /\ pass'[t] = pass[t]
                   /\ outcome'[t] = outcome[t]]_vars
    /\ \A t \in ThreadIds :
          (thread[t] = "wait" /\ stop_event) ~> (thread[t] = "exited")

\* stop() has returned with the worker joined; the worker had run a pass and
\* so left through its wait.
C13_Witness ==
    /\ call.op = "stop" /\ call.pc = "done" /\ call.result = "joined"
    /\ status_thread # 0
    /\ thread[status_thread] = "exited"
    /\ outcome[status_thread] \in {"committed", "unchanged", "empty"}
    /\ pass[status_thread].pc = "idle"

\* C14: stop() returns even when the worker is inside a pass that does not
\* end: it gives up the join, the service is disabled all the same, and the
\* worker starts no new pass: once out of the pass in progress it exits.
C14_StopAlwaysReturns ==
    /\ (call.op = "stop" /\ call.pc = "join") ~> (call.op = "stop" /\ call.pc = "done")
    /\ [][StopReturnStep => (~enabled' /\ ~get_status.enabled)]_vars
    /\ [][\A t \in ThreadIds :
             ~enabled => (thread'[t] = "check" => thread[t] = "check")]_vars
    /\ \A t \in ThreadIds :
          (~enabled /\ thread[t] = "wait") ~> (thread[t] = "exited")

\* stop() gave up the join on a worker inside a pass; the worker has since
\* ended that pass and exited.
C14_Witness ==
    /\ call.op = "stop" /\ call.pc = "done" /\ call.result = "timeout"
    /\ ~enabled
    /\ thread[status_thread] = "exited"
    /\ outcome[status_thread] \in {"committed", "unchanged", "failed"}

\* A force_check() call begins (and, over no online controller, without an
\* app or over a failing store, ends); ForceEnd is the end of its pass.
ForceBegin ==
    /\ pass[ForceCaller].pc = "idle"
    /\ \/ pass'[ForceCaller] # pass[ForceCaller]
       \/ outcome'[ForceCaller] # outcome[ForceCaller]

ForceEnd == pass[ForceCaller].pc = "finish" /\ pass'[ForceCaller].pc = "idle"

\* The worker and the service fields are what they were.
ServiceUntouched ==
    /\ UNCHANGED <<app, enabled, status_thread, stop_event, thread, call>>
    /\ \A t \in ThreadIds : pass'[t] = pass[t] /\ outcome'[t] = outcome[t]

\* C15 as stated: every force_check() runs a pass and leaves the service and
\* its worker untouched.
C15_ForceCheckAlwaysRunsPass ==
    [][ForceBegin =>
          /\ outcome'[ForceCaller] # "skipped"
          /\ ServiceUntouched]_vars

\* C15 as amended: force_check() leaves the enabled flag, the thread, the
\* stop event and the worker's own pass and place in its loop untouched, and
\* with an app supplied it runs its pass in every state of the service
\* (never started, Running, stop requested, Stopped): one scan, and one
\* commit at most; without an app it does nothing at all.
C15_ForceCheckFrame ==
    /\ [][/\ (ForceBegin \/ ForceEnd) => ServiceUntouched
          /\ (ForceBegin /\ app) =>
                /\ outcome'[ForceCaller] \in {"none", "empty", "failed"}
                /\ (outcome'[ForceCaller] = "none") <=> (pass'[ForceCaller].pc = "finish")
                /\ pass'[ForceCaller].pc = "finish" =>
                      pass'[ForceCaller].dirty =
                          {s \in DOMAIN controllers :
                              /\ controllers[s].is_online
                              /\ StaleBySpec(controllers[s], offline_timeout, now)}
          /\ (ForceBegin /\ ~app) =>
                /\ outcome'[ForceCaller] = "skipped"
                /\ pass'[ForceCaller] = pass[ForceCaller]
                /\ controllers' = controllers]_vars
    /\ []((app /\ pass[ForceCaller].pc = "idle") => ENABLED force_check)

\* A force check has committed on a service that was given an app and never
\* started: no thread exists, and none has been made.
C15_Witness ==
    /\ app /\ enabled /\ ~stop_event
    /\ status_thread = 0
    /\ \A t \in ThreadIds : thread[t] = "unborn"
    /\ outcome[ForceCaller] = "committed"
    /\ pass[ForceCaller].pc = "idle"

\* The instant from which a seen controller is stale: its last_seen plus its
\* effective timeout.
Crossing(c) == c.last_seen + EffectiveTimeout(c, offline_timeout)

Handled == event.status \in {"ok", "created"}

\* C17: every ingestion event handled with success, of any of the six
\* adapters and whatever its payload and the row before, leaves its
\* controller online with last_seen at the time of the event.
C17_IngestionMarksOnline ==
    Handled =>
        /\ event.serial \in DOMAIN controllers
        /\ controllers[event.serial].is_online
        /\ controllers[event.serial].last_seen = event.time

\* An MQTT status message with no 'online' member was handled for a
\* controller that exists, and the controller is offline.
C17_Witness ==
    /\ event.handler = "mqtt_status" /\ event.status = "ok"
    /\ event.online = "absent"
    /\ ~controllers[event.serial].is_online
    /\ controllers[event.serial].last_seen = event.time

\* The last request was one the handler accepts, over a store that takes
\* what the handler itself sends it.
WellFormed ==
    /\ event.status \notin {"bad_request", "bad_location", "not_allowed"}
    /\ event.status = "error" => event.handler = "mqtt_data"

\* C18: an event of the HTTP register, data or status route or an MQTT data
\* or status message, for a serial the store does not know, creates the row,
\* online and seen at the time of the event.
C18_RegisterIfAbsent ==
    (/\ event.handler \in {"register", "data", "status", "mqtt_data", "mqtt_status"}
     /\ ~event.existed
     /\ WellFormed) =>
        /\ event.serial \in DOMAIN controllers
        /\ controllers[event.serial].is_online
        /\ controllers[event.serial].last_seen = event.time

\* An MQTT data message with a 'data' member arrived for an unknown serial,
\* and there is still no row for it.
C18_Witness ==
    /\ event.handler = "mqtt_data" /\ event.data
    /\ ~event.existed
    /\ event.status = "error"
    /\ event.serial \notin DOMAIN controllers

\* The device a spelling names, whatever its case.
Device(raw) == ((raw - 1) % NumControllers) + 1

\* C19: the store holds one row per device at most, whatever requests came
\* and in whatever spelling: every key is an upper-case serial, a request
\* touches the row of its device only, and a request for a device that has a
\* row creates none.
C19_OneRowPerDevice ==
    /\ [](\A x, y \in DOMAIN controllers : Device(x) = Device(y) => x = y)
    /\ [](DOMAIN controllers \subseteq Serials)
    /\ [][event'.n # event.n =>
             /\ DOMAIN controllers' \subseteq DOMAIN controllers \cup {Device(event'.raw)}
             /\ Device(event'.raw) \in DOMAIN controllers =>
                   DOMAIN controllers' = DOMAIN controllers
             /\ \A x \in DOMAIN controllers :
                   x # Device(event'.raw) => controllers'[x] = controllers[x]]_vars

\* A register request in lower case for a serial that had a row was answered
\* with an update of that row, after the clock had moved.
C19_Witness ==
    /\ event.handler = "register" /\ event.status = "ok"
    /\ event.raw > NumControllers
    /\ event.existed
    /\ DOMAIN controllers = {Device(event.raw)}
    /\ controllers[Device(event.raw)].last_seen = event.time
    /\ event.time > 0

\* C20: a register or modify request that carries timeout_seconds = X and is
\* handled with success leaves X in the row and returns X in its answer.
C20_TimeoutStored ==
    (/\ event.handler \in {"register", "modify"}
     /\ Handled
     /\ event.timeout # NULL) =>
        /\ controllers[event.serial].timeout_seconds = event.timeout
        /\ event.response_timeout = event.timeout

\* A register request with a timeout created a row, and the row has none.
C20_Witness ==
    /\ event.handler = "register" /\ event.status = "created"
    /\ event.timeout # NULL
    /\ controllers[event.serial].timeout_seconds = NULL
    /\ event.response_timeout = NULL

\* The workers alive.
AliveWorkers == {t \in ThreadIds : is_alive(t)}

\* C21: at most one worker is alive at any time, however start() and stop()
\* calls from two execution contexts interleave.
C21_AtMostOneWorker ==
    Cardinality(AliveWorkers) <= 1

\* Two workers are inside the loop at once, each spawned by a start() that
\* has found no worker alive.
C21_Witness ==
    /\ Cardinality(AliveWorkers) = 2
    /\ \E t \in ThreadIds : thread[t] = "check"
    /\ enabled

\* stop() has been entered in one of the two contexts.
StopEntered ==
    \/ call.op = "stop" /\ call.pc = "join"
    \/ peer.op = "stop" /\ peer.pc = "join"

\* C27: once stop() has been called, from then on every worker exits and none
\* stays in the loop, whatever start() does in the other context (its clear()
\* of the stop event, its spawn of a new thread) and wherever the worker was.
C27_EveryWorkerExitsAfterStop ==
    [](StopEntered => <>[](AliveWorkers = {}))

\* stop() has set the event while a worker was inside a pass, a start() in
\* the other context has cleared it again and spawned a second thread, and
\* both threads have left the loop.
C27_Witness ==
    /\ ~enabled /\ ~stop_event
    /\ peer.op = "start" /\ peer.pc = "confirm"
    /\ call.op = "stop"
    /\ \A t \in ThreadIds : thread[t] = "exited"
    /\ \E t \in ThreadIds : outcome[t] # "none"

\* Runner r's pass ends in failure.
PassFails(r) == outcome'[r] = "failed" /\ (pass[r].pc = "finish" \/ outcome[r] # "failed")

\* C22: a pass that fails writes nothing: the step in which it fails, with
\* controllers marked offline in its session or not, leaves every row as it
\* is, and so does the scan before it; what the store holds after the pass is
\* what it held before, but for the writes of others.
C22_FailedPassWritesNothing ==
    [][(\E r \in Runners : PassFails(r) \/ ScanStep(r)) =>
           controllers' = controllers]_vars

\* The worker's pass has failed and it is in its wait; the controllers that
\* are online and stale, which a pass would have marked, are online still,
\* and no row of the store is offline.
C22_Witness ==
    \E t \in ThreadIds :
        /\ thread[t] = "wait"
        /\ outcome[t] = "failed"
        /\ \E s \in DOMAIN controllers :
              /\ controllers[s].is_online
              /\ is_stale(controllers[s], offline_timeout, now)
        /\ \A s \in DOMAIN controllers : controllers[s].is_online

\* Controller s is offline in `table` although, at time t, its last_seen is
\* within its effective timeout.
InconsistentIn(table, s, t) ==
    /\ s \in DOMAIN table
    /\ ~table[s].is_online
    /\ ~StaleBySpec(table[s], offline_timeout, t)

\* The worker's pass returns.
PassEnds(t) == thread[t] = "check" /\ thread'[t] = "wait"

\* C23 as stated: the inconsistency is bounded by one pass cycle: a
\* controller that is offline with a last_seen within its timeout when a pass
\* of the worker begins is so no longer when that pass ends.
C23_RepairedWithinOnePass ==
    [][\A t \in ThreadIds : \A s \in Serials :
          (/\ PassEnds(t)
           /\ IF pass[t].pc = "idle"
              THEN InconsistentIn(controllers, s, now)
              ELSE /\ quiet[t]
                   /\ InconsistentIn(controllers, s, pass[t].current_time))
          => ~InconsistentIn(controllers', s, now')]_vars

\* C23, amended: a controller becomes offline with a last_seen within its
\* timeout only by the commit of a pass that read it stale and that a
\* mark-online write has overtaken; and it stays so until an adapter marks it
\* online again or the clock leaves its timeout behind: no pass repairs it.
C23_LastWriterWins ==
    [][\A s \in Serials :
          /\ (~InconsistentIn(controllers, s, now) /\ InconsistentIn(controllers', s, now'))
                => \E r \in Runners :
                      /\ FinishStep(r)
                      /\ s \in pass[r].dirty
                      /\ ~quiet[r]
                      /\ controllers[s].is_online
          /\ (InconsistentIn(controllers, s, now) /\ ~InconsistentIn(controllers', s, now'))
                => (now' # now \/ controllers'[s].is_online)]_vars

\* The pass has committed over a mark-online write: the controller is offline,
\* seen at this very time, and the worker's next pass has come and gone
\* without a change.
C23_Witness ==
    \E s \in DOMAIN controllers :
        /\ ~controllers[s].is_online
        /\ controllers[s].last_seen = now
        /\ now > 0
        /\ thread[1] = "wait"
        /\ outcome[1] \in {"empty", "unchanged"}

\* C24: no ingestion adapter takes a controller from online to offline: the
\* step that handles a request, of any adapter and with any payload, leaves
\* online every controller that was online.
C24_AdaptersNeverSetOffline ==
    [][event'.n # event.n =>
          \A s \in DOMAIN controllers :
              controllers[s].is_online => controllers'[s].is_online]_vars

\* The HTTP status route has handled a body with "online": false, and the
\* controller is offline with last_seen at the time of the request.
C24_Witness ==
    /\ event.handler = "status" /\ event.status = "ok"
    /\ event.online = "false"
    /\ ~controllers[event.serial].is_online
    /\ controllers[event.serial].last_seen = event.time

\* C25: a worker blocked in its interval wait holds no app context, no
\* session and no transaction, however its last pass ended; and each pass
\* begins with none, in a context of its own.
C25_NothingHeldAcrossWait ==
    /\ [](\A t \in ThreadIds :
             thread[t] \in {"wait", "test", "exited"} =>
                 session[t] = "closed" /\ pass[t] = NoPass)
    /\ [][\A t \in ThreadIds : ScanStep(t) => session[t] = "closed"]_vars

\* The worker is in its wait after a pass that found online controllers and
\* none of them stale: the pass has returned without commit or rollback, with
\* the transaction of its query open, and the context left has closed it.
C25_Witness ==
    \E t \in ThreadIds :
        /\ thread[t] = "wait"
        /\ outcome[t] = "unchanged"
        /\ session[t] = "closed"

\* C26: when the handling of an event is over, whatever its outcome, the
\* transaction it opened is open no longer: between events neither the HTTP
\* side nor the MQTT client holds one.
C26_NoTransactionAfterEvent ==
    /\ session[HttpRequest] = "closed"
    /\ session[MqttClient] # "transaction"

\* The MQTT client has handled a status message for a serial the store does
\* not know: nothing was written, and the transaction of the lookup is open.
C26_Witness ==
    /\ event.handler = "mqtt_status" /\ event.status = "ignored"
    /\ event.serial \notin DOMAIN controllers
    /\ session[MqttClient] = "transaction"

\* The answers of an HTTP handler that carry an error status.
HttpErrors == {"bad_request", "bad_location", "not_found", "not_allowed", "error"}

SinglePass(table, t) ==
    [s \in DOMAIN table |->
        IF table[s].is_online /\ StaleBySpec(table[s], offline_timeout, t)
        THEN [table[s] EXCEPT !.is_online = FALSE]
        ELSE table[s]]

\* C29: with the clock at rest and no ingestion, a pass is idempotent.  A
\* pass that begins in a store a pass has been over marks nothing, writes
\* nothing and does not commit; and whatever passes overlap, of the worker
\* and of force_check(), the store after each commit is the store a single
\* pass makes of the store before it, so that the store after all of them is
\* the store after one.
C29_PassIdempotent ==
    /\ [][\A r \in Runners :
             /\ (ScanStep(r) /\ SinglePass(controllers, now) = controllers)
                    => pass'[r].dirty = {} /\ controllers' = controllers
             /\ (FinishStep(r) /\ pass[r].dirty = {})
                    => outcome'[r] = "unchanged" /\ controllers' = controllers
             /\ (FinishStep(r) /\ outcome'[r] # "failed")
                    => /\ controllers' = SinglePass(controllers, now)
                       /\ outcome'[r] = "committed" =>
                              SinglePass(controllers', now) = controllers']_vars
    /\ []((\E r \in Runners : outcome[r] = "committed")
             => SinglePass(controllers, now) = controllers)

\* A pass of the worker has committed and a force check begun after it, over
\* a store that still has a controller online, has ended without a write:
\* the controllers the first pass marked are offline, the others online.
C29_Witness ==
    /\ outcome[ForceCaller] = "unchanged"
    /\ pass[ForceCaller].pc = "idle"
    /\ \E t \in ThreadIds : outcome[t] = "committed"
    /\ \E s \in DOMAIN controllers : ~controllers[s].is_online /\ controllers[s].last_seen = NULL
    /\ \E s \in DOMAIN controllers : controllers[s].is_online

\* The client thread ends a failed attempt (connect() or loop_forever() has
\* raised).
MqttFails == mqtt.pc \in {"connect", "loop"} /\ mqtt'.pc \in {"sleep", "exited"}

\* The client thread begins an attempt: the loop condition has held.
MqttAttempts == mqtt.pc = "test" /\ mqtt'.pc = "connect"

\* C30: retry_count never exceeds max_retries.  A failed attempt adds one to
\* it, a connect that succeeds sets it to 0; the failure that brings it to
\* max_retries disables the service and ends the loop, after which no attempt
\* begins; and none begins once enabled is False, whoever cleared it.
C30_RetryCountBounded ==
    /\ [](mqtt.retry_count \in 0 .. max_retries)
    /\ [](mqtt.retry_count = max_retries => ~mqtt.enabled /\ mqtt.pc = "exited")
    /\ [][/\ MqttFails => mqtt'.retry_count = mqtt.retry_count + 1
          /\ (mqtt.pc = "connect" /\ mqtt'.pc = "loop") => mqtt'.retry_count = 0
          /\ (MqttFails /\ mqtt'.retry_count = max_retries) =>
                 ~mqtt'.enabled /\ mqtt'.pc = "exited"
          /\ mqtt.pc = "exited" => mqtt'.pc = "exited"
          /\ MqttAttempts => mqtt.enabled /\ mqtt.retry_count < max_retries]_vars

\* The fifth attempt in a row has failed: the count is at max_retries, the
\* service has disabled itself and the thread has left the loop, with no
\* stop() called.
C30_Witness ==
    /\ mqtt.retry_count = max_retries
    /\ ~mqtt.enabled
    /\ mqtt.pc = "exited"
    /\ mqtt.stop = "idle"

====
